---- MODULE Spec2Model ----
(***************************************************************************)
(* A model of the checkout extension: the Checkout React component (step   *)
(* navigation, error and sign-out handling, Place Order), the              *)
(* 'custom-payment' method registered with the checkout SDK, and the       *)
(* Express payment routes.                                                 *)
(***************************************************************************)
EXTENDS Integers, Sequences, FiniteSets, TLC

VARIABLES
    state,              \* Checkout.state (CheckoutState)
    props,              \* Checkout.props (WithCheckoutProps, the fields the handlers read)
    embeddedMessenger,  \* Checkout.embeddedMessenger: "undefined" or "messenger"
    mountPhase,         \* position of the async componentDidMount
    env,                \* the browser: isEmbedded(), window.top
    location,           \* window.location.href and window.top.location.href
    pending,            \* logOrderDetailsAndNavigate invocations awaiting axios.post
    calls,              \* calls on collaborators made by the last handler, in order
    lastOp,             \* the last handler that ran, with its arguments
    pm,                 \* the page of the 'custom-payment' method: DOM, instances, timers
    srv                 \* the Express router: the request in hand and the responses sent

vars == <<state, props, embeddedMessenger, mountPhase, env, location, pending, calls, lastOp,
          pm, srv>>

\* the variables of the Checkout component
checkoutVars == <<state, props, embeddedMessenger, mountPhase, env, location, pending, calls,
                  lastOp>>

(***************************************************************************)
(* Bounds                                                                  *)
(***************************************************************************)
MaxSteps == 2

MaxPending == 2

MaxConsignments == 1

MaxInstances == 2

MaxTimers == 1

MaxDetailsLen == 2

(***************************************************************************)
(* Values                                                                  *)
(***************************************************************************)
Undefined == "undefined"

\* CheckoutStepType, in the order the checkout presents the steps
StepOrder == <<"customer", "shipping", "billing", "payment">>

StepTypes == {StepOrder[i] : i \in DOMAIN StepOrder}

CustomerViewTypes == {"guest", "login", "create_account"}

ErrorKinds == {"Error", "CartChangedError"}

ShippingOptionExpiredError == "ShippingOptionExpiredError"

CustomError == "CustomError"

\* the URLs the handlers navigate to: props.cartUrl, props.loginUrl, props.createAccountUrl
cartUrl == "cartUrl"

loginUrl == "loginUrl"

createAccountUrl == "createAccountUrl"

CheckoutUrl == "checkoutUrl"

\* redirectUrl values the payments endpoint may answer with
RedirectUrls == {"portalA", "portalB"}

\* JavaScript truthiness of a string-or-undefined value
Truthy(v) == v /= Undefined /\ v /= ""

Max(a, b) == IF a >= b THEN a ELSE b

(***************************************************************************)
(* props.steps: CheckoutStepStatus[]                                       *)
(***************************************************************************)
\* the ascending enumeration of a set of positions of StepOrder
SortedSeq(S) ==
    CHOOSE s \in [1..Cardinality(S) -> S] :
        \A i, j \in 1..Cardinality(S) : i < j => s[i] < s[j]

\* step lists of pairwise distinct types, in presentation order, of at most n steps
StepLists(n, required) ==
    UNION { { [i \in 1..Cardinality(S) |->
                 [type |-> StepOrder[SortedSeq(S)[i]],
                  isActive |-> a[i],
                  isRequired |-> r[i]]] :
              a \in [1..Cardinality(S) -> BOOLEAN],
              r \in [1..Cardinality(S) -> required] } :
            S \in {T \in SUBSET DOMAIN StepOrder : Cardinality(T) <= n} }

\* lodash findIndex(steps, { type }): 0-based index of the first match, or -1
findIndexType(steps, type) ==
    IF \E i \in DOMAIN steps : steps[i].type = type
    THEN (CHOOSE i \in DOMAIN steps :
              /\ steps[i].type = type
              /\ \A j \in DOMAIN steps : steps[j].type = type => i <= j) - 1
    ELSE -1

\* faulty variant of findIndexActive: the last flagged step instead of the first
findLastIndexActive(steps) ==
    IF \E i \in DOMAIN steps : steps[i].isActive
    THEN (CHOOSE i \in DOMAIN steps :
              /\ steps[i].isActive
              /\ \A j \in DOMAIN steps : steps[j].isActive => j <= i) - 1
    ELSE -1

\* lodash findIndex(steps, { isActive: true })
findIndexActive(steps) ==
    IF \E i \in DOMAIN steps : steps[i].isActive
    THEN (CHOOSE i \in DOMAIN steps :
              /\ steps[i].isActive
              /\ \A j \in DOMAIN steps : steps[j].isActive => i <= j) - 1
    ELSE -1

\* steps[k] for a 0-based index k
At(steps, k) == steps[k + 1]

(***************************************************************************)
(* The running handler: `visible` is what this.state reads, `next` is the  *)
(* state once the pending setState calls are applied, `calls` the calls    *)
(* made so far.  Inside a batched (React event) handler setState does not  *)
(* change this.state before the handler returns.                           *)
(***************************************************************************)
Enter(st, batched) ==
    [visible |-> st, next |-> st, calls |-> <<>>, batched |-> batched]

Merge(st, upd) ==
    [f \in DOMAIN st |-> IF f \in DOMAIN upd THEN upd[f] ELSE st[f]]

setState(this, upd) ==
    [this EXCEPT !.next = Merge(this.next, upd),
                 !.visible = IF this.batched THEN this.visible
                             ELSE Merge(this.next, upd)]

Call(this, c) == [this EXCEPT !.calls = Append(this.calls, c)]

Called(cs, name) == {i \in DOMAIN cs : cs[i][1] = name}

(***************************************************************************)
(* Checkout: the handlers                                                  *)
(***************************************************************************)
InitialState ==
    [activeStepType |-> Undefined,
     defaultStepType |-> Undefined,
     customerViewType |-> Undefined,
     error |-> Undefined,
     isBillingSameAsShipping |-> TRUE,
     isCartEmpty |-> FALSE,
     isRedirecting |-> FALSE,
     isMultiShippingMode |-> FALSE,
     hasSelectedShippingOptions |-> FALSE,
     isSubscribed |-> FALSE,
     buttonConfigs |-> <<>>]

\* faulty variant of navigateToStep: the check against the active step is missing
navigateToStepUnchecked(this, p, type, isDefault) ==
    LET idx == findIndexType(p.steps, type)
    IN  IF idx < 0 THEN this
        ELSE LET t1 == IF isDefault
                       THEN setState(this, [defaultStepType |-> At(p.steps, idx).type])
                       ELSE setState(this, [activeStepType |-> At(p.steps, idx).type])
             IN  IF Truthy(p.error) THEN Call(t1, <<"clearError", p.error>>) ELSE t1

\* faulty variant of navigateToStep: isDefault is ignored and activeStepType is written
navigateToStepIgnoringDefault(this, p, type, isDefault) ==
    LET idx == findIndexType(p.steps, type)
        activeStepType == this.visible.activeStepType
    IN  IF idx < 0 THEN this
        ELSE IF activeStepType = At(p.steps, idx).type THEN this
        ELSE LET t1 == setState(this, [activeStepType |-> At(p.steps, idx).type])
             IN  IF Truthy(p.error) THEN Call(t1, <<"clearError", p.error>>) ELSE t1

navigateToStep(this, p, type, isDefault) ==
    LET idx == findIndexType(p.steps, type)
        activeStepType == this.visible.activeStepType
    IN  IF idx < 0 THEN this
        ELSE IF activeStepType = At(p.steps, idx).type THEN this
        ELSE LET t1 == IF isDefault
                       THEN setState(this, [defaultStepType |-> At(p.steps, idx).type])
                       ELSE setState(this, [activeStepType |-> At(p.steps, idx).type])
             IN  IF Truthy(p.error) THEN Call(t1, <<"clearError", p.error>>) ELSE t1

navigateToNextIncompleteStep(this, p, isDefault) ==
    LET activeStepIndex == findIndexActive(p.steps)
    IN  IF activeStepIndex < 0 THEN this
        ELSE LET previousStep == At(p.steps, Max(activeStepIndex - 1, 0))
                 t1 == Call(this, <<"trackStepCompleted", previousStep.type>>)
             IN  navigateToStep(t1, p, At(p.steps, activeStepIndex).type, isDefault)

handleCartChangedError(this, p) == navigateToStep(this, p, "shipping", FALSE)

\* faulty variant of handleError: a CartChangedError is logged and posted like any other
handleErrorLoggingCartChanged(this, p, messenger, error) ==
    LET t0 == IF error = "CartChangedError" THEN handleCartChangedError(this, p) ELSE this
        t1 == Call(t0, <<"errorLogger.log", error>>)
    IN  IF messenger /= Undefined THEN Call(t1, <<"postError", error>>) ELSE t1

handleError(this, p, messenger, error) ==
    IF error = "CartChangedError" THEN handleCartChangedError(this, p)
    ELSE LET t1 == Call(this, <<"errorLogger.log", error>>)
         IN  IF messenger /= Undefined THEN Call(t1, <<"postError", error>>) ELSE t1

\* faulty variant of handleUnhandledError: a CartChangedError is handled but not shown
handleUnhandledErrorSkippingCartChanged(this, p, messenger, error) ==
    IF error = "CartChangedError" THEN handleError(this, p, messenger, error)
    ELSE setState(handleError(this, p, messenger, error), [error |-> error])

handleUnhandledError(this, p, messenger, error) ==
    setState(handleError(this, p, messenger, error), [error |-> error])

handleCloseErrorModal(this) == setState(this, [error |-> Undefined])

handleEditStep(this, p, type) == navigateToStep(this, p, type, FALSE)

handleReady(this, p) == navigateToNextIncompleteStep(this, p, TRUE)

\* faulty variant of handleShippingNextStep: it always proceeds to the next incomplete step
handleShippingNextStepAlwaysNext(this, p, isBillingSameAsShipping) ==
    navigateToNextIncompleteStep(
        setState(this, [isBillingSameAsShipping |-> isBillingSameAsShipping]), p, FALSE)

handleShippingNextStep(this, p, isBillingSameAsShipping) ==
    LET t1 == setState(this, [isBillingSameAsShipping |-> isBillingSameAsShipping])
    IN  IF isBillingSameAsShipping
        THEN navigateToNextIncompleteStep(t1, p, FALSE)
        ELSE navigateToStep(t1, p, "billing", FALSE)

\* faulty variant of handleConsignmentsUpdated: the shipping step counts as finished
\* while it is the active step (<= for <)
handleConsignmentsUpdatedOnShipping(this, p, newHasSelectedShippingOptions) ==
    LET prevHasSelectedShippingOptions == this.visible.hasSelectedShippingOptions
        activeStepType == this.visible.activeStepType
        defaultStepType == this.visible.defaultStepType
        isDefaultStepPaymentOrBilling ==
            /\ ~Truthy(activeStepType)
            /\ defaultStepType \in {"payment", "billing"}
        isShippingStepFinished ==
            \/ findIndexType(p.steps, "shipping") <= findIndexType(p.steps, activeStepType)
            \/ isDefaultStepPaymentOrBilling
        t1 == IF /\ prevHasSelectedShippingOptions
                 /\ ~newHasSelectedShippingOptions
                 /\ isShippingStepFinished
              THEN setState(navigateToStep(this, p, "shipping", FALSE),
                            [error |-> ShippingOptionExpiredError])
              ELSE this
    IN  setState(t1, [hasSelectedShippingOptions |-> newHasSelectedShippingOptions])

handleConsignmentsUpdated(this, p, newHasSelectedShippingOptions) ==
    LET prevHasSelectedShippingOptions == this.visible.hasSelectedShippingOptions
        activeStepType == this.visible.activeStepType
        defaultStepType == this.visible.defaultStepType
        isDefaultStepPaymentOrBilling ==
            /\ ~Truthy(activeStepType)
            /\ defaultStepType \in {"payment", "billing"}
        isShippingStepFinished ==
            \/ findIndexType(p.steps, "shipping") < findIndexType(p.steps, activeStepType)
            \/ isDefaultStepPaymentOrBilling
        t1 == IF /\ prevHasSelectedShippingOptions
                 /\ ~newHasSelectedShippingOptions
                 /\ isShippingStepFinished
              THEN setState(navigateToStep(this, p, "shipping", FALSE),
                            [error |-> ShippingOptionExpiredError])
              ELSE this
    IN  setState(t1, [hasSelectedShippingOptions |-> newHasSelectedShippingOptions])

setCustomerViewType(this, p, e, customerViewType) ==
    IF customerViewType = "create_account" /\ e.isEmbedded
    THEN IF e.top /= "null"
         THEN Call(this, <<"top.location.replace", createAccountUrl>>)
         ELSE this
    ELSE setState(navigateToStep(this, p, "customer", FALSE),
                  [customerViewType |-> customerViewType])

\* faulty variant of handleSignOut: the closing navigateToStep(Customer) is missing
handleSignOutWithoutNavigation(this, p, e, messenger, isCartEmpty) ==
    IF p.isPriceHiddenFromGuests /\ e.top /= "null"
    THEN Call(this, <<"top.location.href", cartUrl>>)
    ELSE LET t1 == IF messenger /= Undefined
                   THEN Call(this, <<"postSignedOut", messenger>>) ELSE this
             t2 == IF p.isGuestEnabled
                   THEN setCustomerViewType(t1, p, e, "guest") ELSE t1
             t3 == IF isCartEmpty THEN setState(t2, [isCartEmpty |-> TRUE]) ELSE t2
         IN  IF isCartEmpty /\ ~e.isEmbedded /\ e.top /= "null"
             THEN Call(t3, <<"top.location.assign", loginUrl>>)
             ELSE t3

\* faulty variant of handleSignOut: postSignedOut is sent before prices are looked at
handleSignOutPostingFirst(this, p, e, messenger, isCartEmpty) ==
    LET t1 == IF messenger /= Undefined
              THEN Call(this, <<"postSignedOut", messenger>>) ELSE this
    IN  IF p.isPriceHiddenFromGuests /\ e.top /= "null"
        THEN Call(t1, <<"top.location.href", cartUrl>>)
        ELSE LET t2 == IF p.isGuestEnabled
                       THEN setCustomerViewType(t1, p, e, "guest") ELSE t1
                 t3 == IF isCartEmpty THEN setState(t2, [isCartEmpty |-> TRUE]) ELSE t2
             IN  IF isCartEmpty /\ ~e.isEmbedded /\ e.top /= "null"
                 THEN Call(t3, <<"top.location.assign", loginUrl>>)
                 ELSE navigateToStep(t3, p, "customer", FALSE)

\* faulty variant of handleSignOut: the redirect to loginUrl does not return
handleSignOutWithoutReturn(this, p, e, messenger, isCartEmpty) ==
    IF p.isPriceHiddenFromGuests /\ e.top /= "null"
    THEN Call(this, <<"top.location.href", cartUrl>>)
    ELSE LET t1 == IF messenger /= Undefined
                   THEN Call(this, <<"postSignedOut", messenger>>) ELSE this
             t2 == IF p.isGuestEnabled
                   THEN setCustomerViewType(t1, p, e, "guest") ELSE t1
             t3 == IF isCartEmpty THEN setState(t2, [isCartEmpty |-> TRUE]) ELSE t2
             t4 == IF isCartEmpty /\ ~e.isEmbedded /\ e.top /= "null"
                   THEN Call(t3, <<"top.location.assign", loginUrl>>)
                   ELSE t3
         IN  navigateToStep(t4, p, "customer", FALSE)

handleSignOut(this, p, e, messenger, isCartEmpty) ==
    IF p.isPriceHiddenFromGuests /\ e.top /= "null"
    THEN Call(this, <<"top.location.href", cartUrl>>)
    ELSE LET t1 == IF messenger /= Undefined
                   THEN Call(this, <<"postSignedOut", messenger>>) ELSE this
             t2 == IF p.isGuestEnabled
                   THEN setCustomerViewType(t1, p, e, "guest") ELSE t1
             t3 == IF isCartEmpty THEN setState(t2, [isCartEmpty |-> TRUE]) ELSE t2
         IN  IF isCartEmpty /\ ~e.isEmbedded /\ e.top /= "null"
             THEN Call(t3, <<"top.location.assign", loginUrl>>)
             ELSE navigateToStep(t3, p, "customer", FALSE)

handleShippingSignIn(this, p, e) == setCustomerViewType(this, p, e, "login")

handleShippingCreateAccount(this, p, e) == setCustomerViewType(this, p, e, "create_account")

handleToggleMultiShipping(this) ==
    setState(this, [isMultiShippingMode |-> ~this.visible.isMultiShippingMode])

handleNewsletterSubscription(this, subscribed) ==
    setState(this, [isSubscribed |-> subscribed])

\* componentDidMount once loadCheckout and the extensions have settled; `load` is
\* what they produced
componentDidMount(this, p, load) ==
    IF load.outcome = "rejected"
    THEN handleUnhandledError(this, p, Undefined, load.error)
    ELSE LET t1 == IF Len(load.buttonConfigs) > 0
                   THEN setState(this, [buttonConfigs |-> load.buttonConfigs]) ELSE this
             t2 == IF load.hasErrorFlashMessage
                   THEN setState(t1, [error |-> CustomError]) ELSE t1
             t3 == Call(Call(Call(t2, <<"postFrameLoaded", "messenger">>),
                             <<"postLoaded", "messenger">>),
                        <<"checkoutBegin", "analyticsTracker">>)
             t4 == setState(t3,
                       [isBillingSameAsShipping |-> load.checkoutBillingSameAsShippingEnabled,
                        isSubscribed |-> load.defaultNewsletterSignup])
             t5 == IF load.isMultiShippingMode
                   THEN setState(t4, [isMultiShippingMode |-> TRUE]) ELSE t4
         IN  handleReady(t5, p)

\* faulty variant of logOrderDetailsAndNavigate: an empty consignments array passes the guard
logOrderDetailsAndNavigateWithoutLengthCheck(this, p) ==
    IF \/ ~Truthy(p.cart)
       \/ ~Truthy(p.billingAddress)
       \/ ~p.consignments.defined
    THEN Call(this, <<"console.error", "Missing order details">>)
    ELSE Call(this, <<"axios.post",
                      [clientSessionId |-> p.cart, address |-> p.billingAddress]>>)

\* Place Order: the part of logOrderDetailsAndNavigate before the await
logOrderDetailsAndNavigate(this, p) ==
    IF \/ ~Truthy(p.cart)
       \/ ~Truthy(p.billingAddress)
       \/ ~p.consignments.defined
       \/ Len(p.consignments.items) = 0
    THEN Call(this, <<"console.error", "Missing order details">>)
    ELSE Call(this, <<"axios.post",
                      [clientSessionId |-> p.cart, address |-> p.billingAddress]>>)

\* faulty variant of logOrderDetailsAndNavigateSettled: redirectUrl is not checked
logOrderDetailsAndNavigateSettledUnchecked(this, response) ==
    IF response.status = "rejected" THEN this
    ELSE IF response.data = "object"
    THEN Call(Call(this, <<"console.log", response.redirectUrl>>),
              <<"window.location.href", response.redirectUrl>>)
    ELSE Call(this, <<"console.error", "Unexpected response structure:">>)

\* Place Order: the part of logOrderDetailsAndNavigate after the await
logOrderDetailsAndNavigateSettled(this, response) ==
    IF response.status = "rejected" THEN this
    ELSE IF response.data = "object" /\ Truthy(response.redirectUrl)
    THEN Call(Call(this, <<"console.log", response.redirectUrl>>),
              <<"window.location.href", response.redirectUrl>>)
    ELSE Call(this, <<"console.error", "Unexpected response structure:">>)

(***************************************************************************)
(* Checkout: rendering                                                     *)
(***************************************************************************)
\* render(): the error modal is rendered exactly when state.error is set
render(st) ==
    [errorModal |-> IF Truthy(st.error) THEN st.error ELSE "null"]

\* renderStep(step): null when the shipping step has no cart to show
renderStep(step, p) ==
    IF step.type = "shipping" /\ ~Truthy(p.cart) THEN "null" ELSE step.type

\* faulty variant of StepsToRender: the default step stays marked once another step is active
StepsToRenderMarkingDefault(st, p) ==
    LET required == SelectSeq(p.steps, LAMBDA step : step.isRequired)
    IN  [i \in DOMAIN required |->
            [type |-> required[i].type,
             isActive |-> \/ st.activeStepType = required[i].type
                          \/ st.defaultStepType = required[i].type,
             node |-> renderStep(required[i], p)]]

\* props.steps.filter(isRequired).map(step => renderStep({...step, isActive}))
StepsToRender(st, p) ==
    LET required == SelectSeq(p.steps, LAMBDA step : step.isRequired)
    IN  [i \in DOMAIN required |->
            [type |-> required[i].type,
             isActive |-> IF Truthy(st.activeStepType)
                          THEN st.activeStepType = required[i].type
                          ELSE st.defaultStepType = required[i].type,
             node |-> renderStep(required[i], p)]]

\* renderContent(): the steps on screen; none when the cart is empty
renderContent(st, p) ==
    IF st.isCartEmpty THEN <<>>
    ELSE SelectSeq(StepsToRender(st, p), LAMBDA r : r.node /= "null")

(***************************************************************************)
(* Checkout: the browser                                                   *)
(***************************************************************************)
TopNavigations == {"top.location.href", "top.location.assign", "top.location.replace"}

\* a navigation of window.top moves the window itself when the page is its own top
NavigateTop(loc, e, url) ==
    IF e.top = "self" THEN [window |-> url, top |-> url]
    ELSE [loc EXCEPT !.top = url]

NavigateWindow(loc, e, url) ==
    IF e.top = "self" THEN [window |-> url, top |-> url]
    ELSE [loc EXCEPT !.window = url]

\* the location after the navigations among the calls cs (a handler makes at most one)
LocationAfter(loc, e, cs) ==
    IF \E i \in DOMAIN cs : cs[i][1] \in TopNavigations
    THEN NavigateTop(loc, e, cs[CHOOSE i \in DOMAIN cs : cs[i][1] \in TopNavigations][2])
    ELSE loc

InitialLocation(e) ==
    [window |-> CheckoutUrl,
     top |-> CASE e.top = "self" -> CheckoutUrl
               [] e.top = "parent" -> "parentUrl"
               [] OTHER -> "null"]

(***************************************************************************)
(* The 'custom-payment' method (CustomPaymentMethod and its registration)  *)
(***************************************************************************)
\* strings of at most n characters, as sequences
Strings(n) == UNION {[1..k -> {"4"}] : k \in 0..n}

\* a value of this.state.paymentData: null, or the captured string
NullData == [isNull |-> TRUE, value |-> <<>>]

Data(str) == [isNull |-> FALSE, value |-> str]

\* JavaScript truthiness of paymentData
TruthyData(d) == ~d.isNull /\ Len(d.value) > 0

\* new CustomPaymentMethod(options): state.paymentData is null
CustomPaymentMethod == [paymentData |-> NullData]

\* the page before any hook ran: `registered` is whether window.checkout existed
\* when checkout.js ran, `container` whether #checkout-payment-container exists
InitialPage(registered, container) ==
    [registered |-> registered,
     container |-> container,
     inputs |-> <<>>,       \* the value of each #payment-details input, in document order
     listeners |-> <<>>,    \* click listeners of the first #submit-custom-payment button
     instances |-> <<>>,    \* the CustomPaymentMethod objects the listeners hold
     timers |-> <<>>,       \* the objects whose submitPayment timer has not fired
     hook |-> [name |-> "none", status |-> "none", value |-> NullData]]

\* CustomPaymentMethod.initializePayment on a new object `self`
initializePayment(page, self) ==
    IF ~page.container
    THEN [page EXCEPT !.hook = [name |-> "initializePayment", status |-> "rejected",
                                value |-> NullData]]
    ELSE [page EXCEPT !.inputs = Append(@, <<>>),
                      !.instances = Append(@, self),
                      !.listeners = Append(@, Len(page.instances) + 1),
                      !.hook = [name |-> "initializePayment", status |-> "resolved",
                                value |-> self.paymentData]]

\* the click listener of the object at `i`: it reads the first #payment-details
clickListener(page, i) ==
    [page EXCEPT !.instances[i] = [paymentData |-> Data(page.inputs[1])]]

RECURSIVE runListeners(_, _)
runListeners(page, ls) ==
    IF ls = <<>> THEN page
    ELSE runListeners(clickListener(page, Head(ls)), Tail(ls))

\* CustomPaymentMethod.validatePayment on the object `self`
validatePayment(self) ==
    IF ~self.paymentData.isNull /\ Len(self.paymentData.value) > 0
    THEN [name |-> "validatePayment", status |-> "resolved", value |-> NullData]
    ELSE [name |-> "validatePayment", status |-> "rejected", value |-> NullData]

\* CustomPaymentMethod.submitPayment on the object `self`, when its timer fires
submitPayment(self) ==
    IF TruthyData(self.paymentData)
    THEN [name |-> "submitPayment", status |-> "resolved", value |-> self.paymentData]
    ELSE [name |-> "submitPayment", status |-> "rejected", value |-> NullData]

\* the hooks checkout.js registers: each builds its own object
registeredInitializePayment(page) == initializePayment(page, CustomPaymentMethod)

registeredValidatePayment(page) == [page EXCEPT !.hook = validatePayment(CustomPaymentMethod)]

registeredSubmitPayment(page) == [page EXCEPT !.timers = Append(@, CustomPaymentMethod)]

(***************************************************************************)
(* The Express router                                                      *)
(***************************************************************************)
\* `express` is the major version of Express, `processPayment` what the identifier
\* processPayment stands for when the handler evaluates it
InitialRouter(express, processPayment) ==
    [express |-> express,
     processPayment |-> processPayment,
     pc |-> "idle",
     route |-> "none",
     req |-> [parsed |-> FALSE, payment_data |-> [kind |-> "missing"],
              order_id |-> Undefined],
     responses |-> <<>>]

PaymentDatas ==
    {[kind |-> "missing"], [kind |-> "null"], [kind |-> "empty"]}
    \cup [kind : {"object"}, amount : {Undefined, "10"}, currency : {Undefined, "USD"}]

\* req.body: not parsed (undefined), or an object with the two fields
Requests ==
    {[parsed |-> FALSE, payment_data |-> [kind |-> "missing"], order_id |-> Undefined]}
    \cup [parsed : {TRUE}, payment_data : PaymentDatas, order_id : {Undefined, "", "order1"}]

Routes == {"GET /auth/callback", "POST /process-payment", "POST /process-payment-test"}

\* !payment_data
FalsyData(pd) == pd.kind /= "object"

\* payment_data.amount: a TypeError on undefined and null
Field(pd, f) == IF pd.kind = "object" THEN pd[f] ELSE Undefined

Json(status, body) == [by |-> "route", status |-> status, body |-> body]

ErrorBody(message) ==
    [status |-> "error", message |-> message, transaction_id |-> Undefined,
     amount |-> Undefined, currency |-> Undefined]

SuccessBody(id, pd) ==
    [status |-> "success", message |-> Undefined, transaction_id |-> id,
     amount |-> Field(pd, "amount"), currency |-> Field(pd, "currency")]

\* what a handler did: the responses it sent and whether its promise was rejected
Outcome(responses, rejected) == [responses |-> responses, rejected |-> rejected]

authCallback(req) ==
    Outcome(<<[by |-> "route", status |-> 200,
               body |-> [ErrorBody(Undefined) EXCEPT !.status = "Authorization successful"]]>>,
            FALSE)

\* faulty variant of processPaymentRoute: order_id is not validated
processPaymentRouteWithoutOrderId(req, processPayment) ==
    IF ~req.parsed
    THEN Outcome(<<Json(400, ErrorBody("Cannot destructure property of undefined"))>>, FALSE)
    ELSE IF FalsyData(req.payment_data)
    THEN Outcome(<<Json(400, ErrorBody("Missing required fields"))>>, FALSE)
    ELSE IF processPayment = "undeclared"
    THEN Outcome(<<Json(400, ErrorBody("processPayment is not defined"))>>, FALSE)
    ELSE IF processPayment = "rejects"
    THEN Outcome(<<Json(400, ErrorBody("payment declined"))>>, FALSE)
    ELSE Outcome(<<Json(200, SuccessBody("transaction1", req.payment_data))>>, FALSE)

processPaymentRoute(req, processPayment) ==
    IF ~req.parsed
    THEN Outcome(<<Json(400, ErrorBody("Cannot destructure property of undefined"))>>, FALSE)
    ELSE IF FalsyData(req.payment_data) \/ ~Truthy(req.order_id)
    THEN Outcome(<<Json(400, ErrorBody("Missing required fields"))>>, FALSE)
    ELSE IF processPayment = "undeclared"
    THEN Outcome(<<Json(400, ErrorBody("processPayment is not defined"))>>, FALSE)
    ELSE IF processPayment = "rejects"
    THEN Outcome(<<Json(400, ErrorBody("payment declined"))>>, FALSE)
    ELSE Outcome(<<Json(200, SuccessBody("transaction1", req.payment_data))>>, FALSE)

processPaymentTest(req) ==
    IF ~req.parsed \/ req.payment_data.kind \in {"missing", "null"}
    THEN Outcome(<<>>, TRUE)
    ELSE Outcome(<<Json(200, SuccessBody("TEST_now", req.payment_data))>>, FALSE)

\* the handler of a route
Handler(route, req, processPayment) ==
    CASE route = "GET /auth/callback" -> authCallback(req)
      [] route = "POST /process-payment" -> processPaymentRoute(req, processPayment)
      [] OTHER -> processPaymentTest(req)

\* Express 5 passes a rejected handler promise to its error handler, which answers
\* 500; Express 4 drops it
AfterHandler(express, outcome) ==
    IF outcome.rejected /\ express = "v5"
    THEN Append(outcome.responses,
                [by |-> "express", status |-> 500, body |-> ErrorBody("TypeError")])
    ELSE outcome.responses

(***************************************************************************)
(* Actions: one per handler                                                *)
(***************************************************************************)
Mounted == mountPhase /= "unmounted"

\* the handler ran to its end: its setState calls and its navigation take effect
Commit(t, name, args) ==
    /\ state' = t.next
    /\ calls' = t.calls
    /\ location' = LocationAfter(location, env, t.calls)
    /\ lastOp' = [name |-> name, args |-> args]
    /\ UNCHANGED <<pm, srv>>

EditStep(type) ==
    /\ Mounted
    /\ Commit(handleEditStep(Enter(state, TRUE), props, type), "handleEditStep", <<type>>)
    /\ UNCHANGED <<props, embeddedMessenger, mountPhase, env, pending>>

Ready ==
    /\ Mounted
    /\ Commit(handleReady(Enter(state, TRUE), props), "handleReady", <<>>)
    /\ UNCHANGED <<props, embeddedMessenger, mountPhase, env, pending>>

\* Customer.onSignIn / onContinueAsGuest / onAccountCreated, Billing.navigateNextStep
NextIncompleteStep ==
    /\ Mounted
    /\ Commit(navigateToNextIncompleteStep(Enter(state, TRUE), props, FALSE),
              "navigateToNextIncompleteStep", <<>>)
    /\ UNCHANGED <<props, embeddedMessenger, mountPhase, env, pending>>

ShippingNextStep(isBillingSameAsShipping) ==
    /\ Mounted
    /\ Commit(handleShippingNextStep(Enter(state, TRUE), props, isBillingSameAsShipping),
              "handleShippingNextStep", <<isBillingSameAsShipping>>)
    /\ UNCHANGED <<props, embeddedMessenger, mountPhase, env, pending>>

UnhandledError(error) ==
    /\ Mounted
    /\ Commit(handleUnhandledError(Enter(state, TRUE), props, embeddedMessenger, error),
              "handleUnhandledError", <<error>>)
    /\ UNCHANGED <<props, embeddedMessenger, mountPhase, env, pending>>

\* CustomerInfo.onSignOutError, Customer.onSignInError / onContinueAsGuestError
OnError(error) ==
    /\ Mounted
    /\ Commit(handleError(Enter(state, TRUE), props, embeddedMessenger, error),
              "handleError", <<error>>)
    /\ UNCHANGED <<props, embeddedMessenger, mountPhase, env, pending>>

CloseErrorModal ==
    /\ Mounted
    /\ Truthy(state.error)
    /\ Commit(handleCloseErrorModal(Enter(state, TRUE)), "handleCloseErrorModal", <<>>)
    /\ UNCHANGED <<props, embeddedMessenger, mountPhase, env, pending>>

\* the store notifies the subscriber registered by componentDidMount
ConsignmentsUpdated(newHasSelectedShippingOptions) ==
    /\ mountPhase = "ready"
    /\ Commit(handleConsignmentsUpdated(Enter(state, FALSE), props,
                                        newHasSelectedShippingOptions),
              "handleConsignmentsUpdated", <<newHasSelectedShippingOptions>>)
    /\ UNCHANGED <<props, embeddedMessenger, mountPhase, env, pending>>

\* the store hands the component new props: one of them changed (`fields` gives
\* the values each prop may take)
PropsUpdated(fields) ==
    /\ Mounted
    /\ \E f \in DOMAIN fields : \E v \in fields[f] \ {props[f]} :
           props' = [props EXCEPT ![f] = v]
    /\ calls' = <<>>
    /\ lastOp' = [name |-> "propsUpdated", args |-> <<>>]
    /\ UNCHANGED <<state, embeddedMessenger, mountPhase, env, location, pending, pm, srv>>

ToggleMultiShipping ==
    /\ Mounted
    /\ Commit(handleToggleMultiShipping(Enter(state, TRUE)), "handleToggleMultiShipping", <<>>)
    /\ UNCHANGED <<props, embeddedMessenger, mountPhase, env, pending>>

NewsletterSubscription(subscribed) ==
    /\ Mounted
    /\ Commit(handleNewsletterSubscription(Enter(state, TRUE), subscribed),
              "handleNewsletterSubscription", <<subscribed>>)
    /\ UNCHANGED <<props, embeddedMessenger, mountPhase, env, pending>>

SignOut(isCartEmpty, batched) ==
    /\ Mounted
    /\ Commit(handleSignOut(Enter(state, batched), props, env, embeddedMessenger, isCartEmpty),
              "handleSignOut", <<isCartEmpty, batched>>)
    /\ UNCHANGED <<props, embeddedMessenger, mountPhase, env, pending>>

\* Customer.onChangeViewType
ChangeViewType(viewType) ==
    /\ Mounted
    /\ Commit(setCustomerViewType(Enter(state, TRUE), props, env, viewType),
              "setCustomerViewType", <<viewType>>)
    /\ UNCHANGED <<props, embeddedMessenger, mountPhase, env, pending>>

ShippingSignIn ==
    /\ Mounted
    /\ Commit(handleShippingSignIn(Enter(state, TRUE), props, env),
              "handleShippingSignIn", <<>>)
    /\ UNCHANGED <<props, embeddedMessenger, mountPhase, env, pending>>

ShippingCreateAccount ==
    /\ Mounted
    /\ Commit(handleShippingCreateAccount(Enter(state, TRUE), props, env),
              "handleShippingCreateAccount", <<>>)
    /\ UNCHANGED <<props, embeddedMessenger, mountPhase, env, pending>>

\* the awaits of componentDidMount settle and the rest of it runs
ComponentDidMount(load) ==
    /\ mountPhase = "loading"
    /\ Commit(componentDidMount(Enter(state, FALSE), props, load),
              "componentDidMount", <<load.outcome>>)
    /\ mountPhase' = IF load.outcome = "rejected" THEN "failed" ELSE "ready"
    /\ embeddedMessenger' = IF load.outcome = "rejected" THEN Undefined ELSE "messenger"
    /\ UNCHANGED <<props, env, pending>>

\* the Place Order button is part of the rendered payment step
PlaceOrderShown ==
    \E i \in DOMAIN renderContent(state, props) :
        renderContent(state, props)[i].type = "payment"

PlaceOrder ==
    /\ Mounted
    /\ PlaceOrderShown
    /\ LET t == logOrderDetailsAndNavigate(Enter(state, TRUE), props)
       IN  /\ Called(t.calls, "axios.post") /= {} => pending < MaxPending
           /\ Commit(t, "logOrderDetailsAndNavigate", <<>>)
           /\ pending' = pending + Cardinality(Called(t.calls, "axios.post"))
    /\ UNCHANGED <<props, embeddedMessenger, mountPhase, env>>

\* axios.post settles and the invocation awaiting it runs to its end
PaymentSettled(response) ==
    /\ pending > 0
    /\ LET t == logOrderDetailsAndNavigateSettled(Enter(state, FALSE), response)
       IN  /\ state' = t.next
           /\ calls' = t.calls
           /\ location' = IF Called(t.calls, "window.location.href") /= {}
                          THEN NavigateWindow(location, env, response.redirectUrl)
                          ELSE location
           /\ lastOp' = [name |-> "logOrderDetailsAndNavigate.settled", args |-> <<response>>]
    /\ pending' = pending - 1
    /\ UNCHANGED <<props, embeddedMessenger, mountPhase, env, pm, srv>>

ComponentWillUnmount ==
    /\ Mounted
    /\ mountPhase' = "unmounted"
    /\ calls' = <<<<"exitCheckout", "analyticsTracker">>>>
    /\ lastOp' = [name |-> "componentWillUnmount", args |-> <<>>]
    /\ UNCHANGED <<state, props, embeddedMessenger, env, location, pending, pm, srv>>

(***************************************************************************)
(* Step navigation                                                         *)
(***************************************************************************)
DefaultEnv == [isEmbedded |-> FALSE, top |-> "self"]

\* the props records whose fields range over `fields`
PropsOf(fields) ==
    [steps : fields.steps,
     error : fields.error,
     cart : fields.cart,
     billingAddress : fields.billingAddress,
     consignments : fields.consignments,
     isGuestEnabled : fields.isGuestEnabled,
     isPriceHiddenFromGuests : fields.isPriceHiddenFromGuests]

Consignments ==
    {[defined |-> FALSE, items |-> <<>>]}
    \cup {[defined |-> TRUE, items |-> [i \in 1..n |-> "consignmentA"]] :
            n \in 0..MaxConsignments}

NoConsignments == [defined |-> TRUE, items |-> <<>>]

\* step lists in which no step is flagged isActive
UnflaggedStepLists ==
    {s \in StepLists(MaxSteps, {TRUE}) : \A i \in DOMAIN s : ~s[i].isActive}

NavProps ==
    [steps |-> StepLists(MaxSteps, {TRUE}),
     error |-> {Undefined, "Error"},
     cart |-> {"cartA"},
     billingAddress |-> {"addressA"},
     consignments |-> {NoConsignments},
     isGuestEnabled |-> {TRUE},
     isPriceHiddenFromGuests |-> {FALSE}]

InitWith(fields, envs) ==
    /\ state = InitialState
    /\ props \in PropsOf(fields)
    /\ embeddedMessenger = Undefined
    /\ mountPhase = "loading"
    /\ env \in envs
    /\ location = InitialLocation(env)
    /\ pending = 0
    /\ calls = <<>>
    /\ lastOp = [name |-> "constructor", args |-> <<>>]
    /\ pm = InitialPage(TRUE, TRUE)
    /\ srv = InitialRouter("v4", "undeclared")

InitNav == InitWith(NavProps, {DefaultEnv})

NextNav ==
    \/ \E type \in StepTypes : EditStep(type)
    \/ Ready
    \/ NextIncompleteStep
    \/ \E b \in BOOLEAN : ShippingNextStep(b)
    \/ ToggleMultiShipping
    \/ \E subscribed \in BOOLEAN : NewsletterSubscription(subscribed)
    \/ PropsUpdated(NavProps)

SpecNav == InitNav /\ [][NextNav]_vars

(***************************************************************************)
(* Errors and the error modal                                              *)
(***************************************************************************)
\* what componentDidMount's awaits may produce
Loads(errors, flash, configs, settings) ==
    [outcome : {"rejected"}, error : errors, hasErrorFlashMessage : {FALSE},
     buttonConfigs : {<<>>}, checkoutBillingSameAsShippingEnabled : {TRUE},
     defaultNewsletterSignup : {FALSE}, isMultiShippingMode : {FALSE}]
    \cup
    [outcome : {"loaded"}, error : {Undefined}, hasErrorFlashMessage : flash,
     buttonConfigs : configs, checkoutBillingSameAsShippingEnabled : settings,
     defaultNewsletterSignup : settings, isMultiShippingMode : settings]

ErrorLoads == Loads(ErrorKinds, BOOLEAN, {<<>>}, {TRUE})

ErrorProps == [NavProps EXCEPT !.error = {Undefined}]

InitError == InitWith(ErrorProps, {DefaultEnv})

NextError ==
    \/ \E load \in ErrorLoads : ComponentDidMount(load)
    \/ \E error \in ErrorKinds : UnhandledError(error)
    \/ \E error \in ErrorKinds : OnError(error)
    \/ CloseErrorModal
    \/ \E b \in BOOLEAN : ConsignmentsUpdated(b)
    \/ \E type \in StepTypes : EditStep(type)
    \/ Ready
    \/ NextIncompleteStep
    \/ PropsUpdated(ErrorProps)

SpecError == InitError /\ [][NextError]_vars

(***************************************************************************)
(* Signing out                                                             *)
(***************************************************************************)
Envs == [isEmbedded : BOOLEAN, top : {"self", "parent", "null"}]

SignOutProps ==
    [NavProps EXCEPT !.steps = UnflaggedStepLists,
                     !.error = {Undefined},
                     !.isGuestEnabled = BOOLEAN,
                     !.isPriceHiddenFromGuests = BOOLEAN]

SignOutLoads == Loads({"Error"}, {FALSE}, {<<>>}, {TRUE})

InitSignOut == InitWith(SignOutProps, Envs)

NextSignOut ==
    \/ \E load \in SignOutLoads : ComponentDidMount(load)
    \/ \E isCartEmpty, batched \in BOOLEAN : SignOut(isCartEmpty, batched)
    \/ \E viewType \in CustomerViewTypes : ChangeViewType(viewType)
    \/ ShippingSignIn
    \/ ShippingCreateAccount
    \/ \E type \in StepTypes : EditStep(type)
    \/ PropsUpdated(SignOutProps)

SpecSignOut == InitSignOut /\ [][NextSignOut]_vars

(***************************************************************************)
(* Place Order                                                             *)
(***************************************************************************)
OrderProps ==
    [NavProps EXCEPT !.steps = UnflaggedStepLists,
                     !.error = {Undefined},
                     !.cart = {Undefined, "cartA"},
                     !.billingAddress = {Undefined, "addressA"},
                     !.consignments = Consignments]

\* how axios.post may settle
Responses ==
    {[status |-> "rejected", data |-> "none", redirectUrl |-> Undefined],
     [status |-> "resolved", data |-> "null", redirectUrl |-> Undefined]}
    \cup [status : {"resolved"}, data : {"object"},
          redirectUrl : {Undefined, ""} \cup RedirectUrls]

InitOrder == InitWith(OrderProps, {DefaultEnv, [isEmbedded |-> TRUE, top |-> "parent"]})

NextOrder ==
    \/ PlaceOrder
    \/ \E response \in Responses : PaymentSettled(response)
    \/ \E type \in StepTypes : EditStep(type)
    \/ ComponentWillUnmount
    \/ PropsUpdated(OrderProps)

SpecOrder == InitOrder /\ [][NextOrder]_vars

(***************************************************************************)
(* The 'custom-payment' method: the checkout SDK calls the hooks, the       *)
(* shopper types and clicks                                                *)
(***************************************************************************)
InitializePaymentHook ==
    /\ pm.registered
    /\ Len(pm.instances) < MaxInstances
    /\ pm' = registeredInitializePayment(pm)
    /\ UNCHANGED <<checkoutVars, srv>>

TypeDetails(k, str) ==
    /\ k \in DOMAIN pm.inputs
    /\ pm' = [pm EXCEPT !.inputs[k] = str]
    /\ UNCHANGED <<checkoutVars, srv>>

\* only the first #submit-custom-payment button has listeners
ClickSubmit(k) ==
    /\ k \in DOMAIN pm.inputs
    /\ pm' = IF k = 1 THEN runListeners(pm, pm.listeners) ELSE pm
    /\ UNCHANGED <<checkoutVars, srv>>

ValidatePaymentHook ==
    /\ pm.registered
    /\ pm' = registeredValidatePayment(pm)
    /\ UNCHANGED <<checkoutVars, srv>>

SubmitPaymentHook ==
    /\ pm.registered
    /\ Len(pm.timers) < MaxTimers
    /\ pm' = registeredSubmitPayment(pm)
    /\ UNCHANGED <<checkoutVars, srv>>

\* the setTimeout of submitPayment fires
SubmitTimer ==
    /\ pm.timers /= <<>>
    /\ pm' = [pm EXCEPT !.hook = submitPayment(Head(pm.timers)), !.timers = Tail(@)]
    /\ UNCHANGED <<checkoutVars, srv>>

InitIdle(pages, routers) ==
    /\ state = InitialState
    /\ props \in PropsOf([NavProps EXCEPT !.steps = {<<>>}, !.error = {Undefined}])
    /\ embeddedMessenger = Undefined
    /\ mountPhase = "loading"
    /\ env = DefaultEnv
    /\ location = InitialLocation(env)
    /\ pending = 0
    /\ calls = <<>>
    /\ lastOp = [name |-> "constructor", args |-> <<>>]
    /\ pm \in pages
    /\ srv \in routers

InitPayment ==
    InitIdle({InitialPage(r, c) : r, c \in BOOLEAN}, {InitialRouter("v4", "undeclared")})

NextPayment ==
    \/ InitializePaymentHook
    \/ \E k \in 1..MaxInstances, str \in Strings(MaxDetailsLen) : TypeDetails(k, str)
    \/ \E k \in 1..MaxInstances : ClickSubmit(k)
    \/ ValidatePaymentHook
    \/ SubmitPaymentHook
    \/ SubmitTimer

SpecPayment == InitPayment /\ [][NextPayment]_vars

(***************************************************************************)
(* The Express router: a request arrives, its handler runs                 *)
(***************************************************************************)
Receive(route, req) ==
    /\ srv.pc \in {"idle", "done"}
    /\ srv' = [srv EXCEPT !.pc = "handling", !.route = route, !.req = req,
                          !.responses = <<>>]
    /\ UNCHANGED <<checkoutVars, pm>>

\* the handler runs to its end (its promise settles) and Express acts on a rejection
Handle ==
    /\ srv.pc = "handling"
    /\ srv' = [srv EXCEPT
                 !.pc = "done",
                 !.responses = AfterHandler(srv.express,
                                            Handler(srv.route, srv.req, srv.processPayment))]
    /\ UNCHANGED <<checkoutVars, pm>>

InitRoutes ==
    InitIdle({InitialPage(TRUE, TRUE)},
             {InitialRouter(e, f) : e \in {"v4", "v5"},
                                    f \in {"undeclared", "resolves", "rejects"}})

NextRoutes ==
    \/ \E route \in Routes, req \in Requests : Receive(route, req)
    \/ Handle

SpecRoutes == InitRoutes /\ [][NextRoutes]_vars

(***************************************************************************)
(* Rendering the steps                                                     *)
(***************************************************************************)
RenderProps ==
    [NavProps EXCEPT !.steps = StepLists(MaxSteps, BOOLEAN),
                     !.error = {Undefined},
                     !.cart = {Undefined, "cartA"}]

InitRender == InitWith(RenderProps, {DefaultEnv})

NextRender ==
    \/ \E type \in StepTypes : EditStep(type)
    \/ Ready
    \/ PropsUpdated(RenderProps)

SpecRender == InitRender /\ [][NextRender]_vars

(***************************************************************************)
(* Properties                                                              *)
(***************************************************************************)
TypesOf(steps) == {steps[i].type : i \in DOMAIN steps}

PairwiseDistinct(steps) ==
    \A i, j \in DOMAIN steps : steps[i].type = steps[j].type => i = j

OrderDetailsPresent(p) ==
    /\ p.cart /= Undefined
    /\ p.billingAddress /= Undefined
    /\ p.consignments.defined
    /\ Len(p.consignments.items) > 0

\* C1: Place Order changes window.location.href only when axios.post resolved with
\* data carrying a truthy redirectUrl, and then to exactly that redirectUrl; when the
\* guard failed, the request was rejected or the response has no redirectUrl, the
\* location is unchanged.
C1_RedirectOnlyToRedirectUrl ==
    [][/\ lastOp'.name = "logOrderDetailsAndNavigate" => location' = location
       /\ lastOp'.name = "logOrderDetailsAndNavigate.settled" =>
            LET response == lastOp'.args[1]
            IN  IF /\ response.status = "resolved"
                   /\ response.data = "object"
                   /\ response.redirectUrl \in RedirectUrls
                THEN location'.window = response.redirectUrl
                ELSE location' = location]_vars

C1_Witness ==
    /\ lastOp.name = "logOrderDetailsAndNavigate.settled"
    /\ lastOp.args[1].redirectUrl = "portalB"
    /\ location.window = "portalB"
    /\ pending = 1

\* C2: a payment request is sent only by a Place Order click that finds the cart, the
\* billing address and a non-empty list of consignments; a click that misses any of
\* them sends no request, redirects nowhere and changes no component state.
C2_NoRequestWithoutOrderDetails ==
    [][/\ Called(calls', "axios.post") /= {} =>
            /\ lastOp'.name = "logOrderDetailsAndNavigate"
            /\ OrderDetailsPresent(props)
       /\ pending' > pending => Called(calls', "axios.post") /= {}
       /\ (lastOp'.name = "logOrderDetailsAndNavigate" /\ ~OrderDetailsPresent(props)) =>
            /\ Called(calls', "axios.post") = {}
            /\ pending' = pending
            /\ location' = location
            /\ state' = state]_vars

C2_Witness ==
    /\ lastOp.name = "logOrderDetailsAndNavigate"
    /\ props.cart = "cartA"
    /\ props.billingAddress = "addressA"
    /\ props.consignments = NoConsignments
    /\ calls = <<<<"console.error", "Missing order details">>>>
    /\ state.activeStepType = "payment"
    /\ pending = 0

\* C3: with pairwise distinct step types, at most one rendered step is marked active,
\* and a rendered step is marked active exactly when its type is activeStepType if
\* that is set, and defaultStepType otherwise.
C3_AtMostOneActiveStep ==
    LET rendered == renderContent(state, props)
        active == {i \in DOMAIN rendered : rendered[i].isActive}
    IN  PairwiseDistinct(props.steps) =>
            /\ Cardinality(active) <= 1
            /\ \A i \in DOMAIN rendered :
                   rendered[i].isActive <=>
                       IF state.activeStepType /= Undefined
                       THEN rendered[i].type = state.activeStepType
                       ELSE rendered[i].type = state.defaultStepType

C3_Witness ==
    LET rendered == renderContent(state, props)
    IN  /\ Len(rendered) = MaxSteps
        /\ state.activeStepType /= Undefined
        /\ state.defaultStepType /= Undefined
        /\ state.defaultStepType /= state.activeStepType
        /\ state.defaultStepType \in {rendered[i].type : i \in DOMAIN rendered}
        /\ \E i \in DOMAIN rendered :
               rendered[i].isActive /\ rendered[i].type = state.activeStepType

\* the flagged steps of props.steps, by position
Flagged(steps) == {i \in DOMAIN steps : steps[i].isActive}

FirstFlagged(steps) == CHOOSE i \in Flagged(steps) : \A j \in Flagged(steps) : i <= j

\* C4: navigateToNextIncompleteStep navigates to the first step flagged isActive (it
\* sets activeStepType, or defaultStepType when called with isDefault, unless that
\* step is active already); when no step is flagged it tracks nothing and leaves
\* activeStepType and defaultStepType alone.
C4_NextIncompleteStep ==
    [][lastOp'.name \in {"navigateToNextIncompleteStep", "handleReady"} =>
         IF Flagged(props.steps) = {}
         THEN /\ calls' = <<>>
              /\ state' = state
         ELSE LET target == props.steps[FirstFlagged(props.steps)].type
              IN  IF state.activeStepType = target THEN state' = state
                  ELSE IF lastOp'.name = "handleReady"
                  THEN state' = [state EXCEPT !.defaultStepType = target]
                  ELSE state' = [state EXCEPT !.activeStepType = target]]_vars

C4_Witness ==
    /\ lastOp.name = "navigateToNextIncompleteStep"
    /\ Cardinality(Flagged(props.steps)) = 2
    /\ state.activeStepType = props.steps[1].type
    /\ state.defaultStepType = props.steps[2].type
    /\ Called(calls, "trackStepCompleted") /= {}

\* C5: handleUnhandledError(e) leaves state.error = e, with the error modal rendered,
\* for every e; once set, state.error becomes undefined only by handleCloseErrorModal,
\* which changes no other field of the state.
C5_ErrorUntilClosed ==
    [][/\ lastOp'.name = "handleUnhandledError" =>
            /\ state'.error = lastOp'.args[1]
            /\ render(state').errorModal = lastOp'.args[1]
       /\ (state.error /= Undefined /\ state'.error = Undefined) =>
            lastOp'.name = "handleCloseErrorModal"
       /\ lastOp'.name = "handleCloseErrorModal" =>
            state' = [state EXCEPT !.error = Undefined]]_vars

C5_Witness ==
    /\ lastOp.name = "handleEditStep"
    /\ state.error = "CartChangedError"
    /\ state.activeStepType = "billing"
    /\ render(state).errorModal = "CartChangedError"

\* some object created by initializePayment holds non-empty captured payment details
Captured(page) ==
    \E i \in DOMAIN page.instances : TruthyData(page.instances[i].paymentData)

\* C6: once initializePayment has resolved and non-empty details were captured by a
\* click on the submit button, the registered validatePayment resolves and the
\* registered submitPayment resolves with the captured details.
C6_HooksSeeCapturedDetails ==
    [][/\ (ValidatePaymentHook /\ Captured(pm)) => pm'.hook.status = "resolved"
       /\ (SubmitTimer /\ Captured(pm)) =>
            /\ pm'.hook.status = "resolved"
            /\ \E i \in DOMAIN pm.instances :
                   pm'.hook.value = pm.instances[i].paymentData]_vars

\* C7: POST /process-payment without payment_data or without order_id answers 400
\* with {status: 'error', message: 'Missing required fields'}, and nothing else.
C7_MissingFieldsAnswer400 ==
    (/\ srv.pc = "done"
     /\ srv.route = "POST /process-payment"
     /\ srv.req.parsed
     /\ (srv.req.payment_data.kind = "missing" \/ srv.req.order_id = Undefined))
    => srv.responses = <<[by |-> "route", status |-> 400,
                          body |-> ErrorBody("Missing required fields")]>>

C7_Witness ==
    /\ srv.pc = "done"
    /\ srv.route = "POST /process-payment"
    /\ srv.req.parsed
    /\ srv.req.payment_data.kind = "object"
    /\ srv.req.order_id = Undefined
    /\ srv.processPayment = "resolves"
    /\ Len(srv.responses) = 1
    /\ srv.responses[1].status = 400

\* C8: every request to any of the three routes gets exactly one response.
C8_ExactlyOneResponse ==
    srv.pc = "done" => Len(srv.responses) = 1

\* C9: after handleSignOut with prices not hidden from guests and no redirect to the
\* login page, Customer is the active step when props.steps has it, customerViewType
\* is Guest when guest checkout is enabled, and postSignedOut was sent exactly once
\* when there is a messenger.
C9_SignOutLandsOnCustomer ==
    (/\ lastOp.name = "handleSignOut"
     /\ ~props.isPriceHiddenFromGuests
     /\ Called(calls, "top.location.assign") = {})
    => /\ "customer" \in TypesOf(props.steps) => state.activeStepType = "customer"
       /\ props.isGuestEnabled => state.customerViewType = "guest"
       /\ embeddedMessenger /= Undefined =>
              Cardinality(Called(calls, "postSignedOut")) = 1

C9_Witness ==
    /\ lastOp.name = "handleSignOut"
    /\ lastOp.args[1]
    /\ ~props.isPriceHiddenFromGuests
    /\ ~props.isGuestEnabled
    /\ env.isEmbedded
    /\ embeddedMessenger /= Undefined
    /\ Called(calls, "postSignedOut") /= {}
    /\ Called(calls, "top.location.assign") = {}
    /\ state.isCartEmpty
    /\ state.activeStepType = "customer"
    /\ state.customerViewType = "login"

\* C10: navigateToStep(type) does nothing when props.steps has no step of that type
\* and when activeStepType is that type already: the state is unchanged and
\* clearError is not called, whatever props.error is.
C10_NavigateToStepNoOp ==
    [][/\ (/\ lastOp'.name = "handleEditStep"
           /\ \/ lastOp'.args[1] \notin TypesOf(props.steps)
              \/ state.activeStepType = lastOp'.args[1]) =>
            /\ state' = state
            /\ calls' = <<>>
       /\ (/\ lastOp'.name = "handleReady"
           /\ Flagged(props.steps) /= {}
           /\ state.activeStepType = props.steps[FirstFlagged(props.steps)].type) =>
            /\ state' = state
            /\ Called(calls', "clearError") = {}]_vars

C10_Witness ==
    /\ lastOp.name = "handleEditStep"
    /\ props.error = "Error"
    /\ lastOp.args[1] \in TypesOf(props.steps)
    /\ state.activeStepType = lastOp.args[1]
    /\ calls = <<>>

\* the clearError calls navigateToStep makes when props.error is e
ClearErrorCalls(e) == IF e /= Undefined THEN <<<<"clearError", e>>>> ELSE <<>>

\* C11: a navigateToStep that is not a no-op writes exactly one step field: called
\* without isDefault (handleEditStep) it sets activeStepType to the target and leaves
\* defaultStepType alone, called with isDefault (handleReady) it sets defaultStepType
\* and leaves activeStepType alone; either way clearError(props.error) is called
\* exactly when props.error is set.
C11_NavigateToStepWritesOneField ==
    [][/\ (/\ lastOp'.name = "handleEditStep"
           /\ lastOp'.args[1] \in TypesOf(props.steps)
           /\ state.activeStepType /= lastOp'.args[1]) =>
            /\ state' = [state EXCEPT !.activeStepType = lastOp'.args[1]]
            /\ calls' = ClearErrorCalls(props.error)
       /\ (/\ lastOp'.name = "handleReady"
           /\ Flagged(props.steps) /= {}
           /\ state.activeStepType /= props.steps[FirstFlagged(props.steps)].type) =>
            /\ state' = [state EXCEPT !.defaultStepType =
                                         props.steps[FirstFlagged(props.steps)].type]
            /\ SelectSeq(calls', LAMBDA c : c[1] = "clearError") =
                   ClearErrorCalls(props.error)]_vars

C11_Witness ==
    /\ lastOp.name = "handleReady"
    /\ props.error = "Error"
    /\ Flagged(props.steps) /= {}
    /\ state.defaultStepType = props.steps[FirstFlagged(props.steps)].type
    /\ state.activeStepType \in TypesOf(props.steps) \ {state.defaultStepType}
    /\ Called(calls, "clearError") /= {}

\* the step the shopper is on: the active step, or the default step while none is active
CurrentStep(st) ==
    IF st.activeStepType /= Undefined THEN st.activeStepType ELSE st.defaultStepType

\* the shipping step is finished: the active step comes after Shipping in steps, or no
\* step is active and the default step is Billing or Payment
ShippingStepFinished(st, steps) ==
    \/ \E i, j \in DOMAIN steps :
           /\ i < j
           /\ steps[i].type = "shipping"
           /\ steps[j].type = st.activeStepType
    \/ /\ st.activeStepType = Undefined
       /\ st.defaultStepType \in {"billing", "payment"}

C13_CartChangedErrorNavigates ==
    [][lastOp'.name = "handleError" =>
         IF lastOp'.args[1] = "CartChangedError"
         THEN /\ state' = IF "shipping" \in TypesOf(props.steps)
                          THEN [state EXCEPT !.activeStepType = "shipping"]
                          ELSE state
              /\ Called(calls', "errorLogger.log") = {}
              /\ Called(calls', "postError") = {}
         ELSE /\ calls' = IF embeddedMessenger /= Undefined
                          THEN <<<<"errorLogger.log", lastOp'.args[1]>>,
                                 <<"postError", lastOp'.args[1]>>>>
                          ELSE <<<<"errorLogger.log", lastOp'.args[1]>>>>
              /\ state'.activeStepType = state.activeStepType
              /\ state'.error = state.error]_vars

C13_Witness ==
    /\ lastOp = [name |-> "handleError", args |-> <<"CartChangedError">>]
    /\ embeddedMessenger /= Undefined
    /\ state.activeStepType = "shipping"
    /\ state.defaultStepType = "billing"
    /\ state.error = "Error"
    /\ calls = <<>>

\* C14: handleShippingNextStep(b) always records isBillingSameAsShipping = b; with b
\* true it goes on to the next incomplete step (the first step flagged isActive, none
\* when no step is flagged), with b false it makes Billing the active step (when
\* props.steps has one) whichever step is flagged; it changes nothing else.
C14_ShippingNextStep ==
    [][lastOp'.name = "handleShippingNextStep" =>
         LET b == lastOp'.args[1]
             recorded == [state EXCEPT !.isBillingSameAsShipping = b]
         IN  /\ state'.isBillingSameAsShipping = b
             /\ b => state' = IF Flagged(props.steps) = {} THEN recorded
                              ELSE [recorded EXCEPT !.activeStepType =
                                       props.steps[FirstFlagged(props.steps)].type]
             /\ ~b => state' = IF "billing" \in TypesOf(props.steps)
                               THEN [recorded EXCEPT !.activeStepType = "billing"]
                               ELSE recorded]_vars

C14_Witness ==
    /\ lastOp = [name |-> "handleShippingNextStep", args |-> <<FALSE>>]
    /\ ~state.isBillingSameAsShipping
    /\ state.activeStepType = "billing"
    /\ Flagged(props.steps) /= {}
    /\ props.steps[FirstFlagged(props.steps)].type = "payment"

\* the calls among cs that navigate the top window
TopNavigationCalls(cs) == SelectSeq(cs, LAMBDA c : c[1] \in TopNavigations)

\* C15: with prices hidden from guests and a top window, handleSignOut only sends the
\* top window to cartUrl: it makes no other call (no postSignedOut) and changes no
\* field of the state (customerViewType, isCartEmpty, activeStepType, defaultStepType).
C15_SignOutWithHiddenPrices ==
    [][(/\ lastOp'.name = "handleSignOut"
        /\ props.isPriceHiddenFromGuests
        /\ env.top /= "null") =>
         /\ calls' = <<<<"top.location.href", cartUrl>>>>
         /\ location'.top = cartUrl
         /\ state' = state]_vars

C15_Witness ==
    /\ lastOp.name = "handleSignOut"
    /\ lastOp.args[1]
    /\ props.isPriceHiddenFromGuests
    /\ props.isGuestEnabled
    /\ embeddedMessenger /= Undefined
    /\ env = [isEmbedded |-> TRUE, top |-> "parent"]
    /\ location = [window |-> CheckoutUrl, top |-> cartUrl]
    /\ calls = <<<<"top.location.href", cartUrl>>>>
    /\ ~state.isCartEmpty
    /\ state.activeStepType = "billing"
    /\ state.customerViewType = "login"

\* C16: handleSignOut reporting an empty cart, prices not hidden, sets isCartEmpty; in
\* a checkout that is not embedded (and has a top window) its last act is to send the
\* top window to loginUrl, with no navigation to the Customer step after it; otherwise
\* it navigates the top window nowhere and Customer becomes the active step (when
\* props.steps has one).
C16_SignOutWithEmptyCart ==
    [][(/\ lastOp'.name = "handleSignOut"
        /\ lastOp'.args[1]
        /\ ~props.isPriceHiddenFromGuests) =>
         /\ state'.isCartEmpty
         /\ IF ~env.isEmbedded /\ env.top /= "null"
            THEN /\ TopNavigationCalls(calls') = <<<<"top.location.assign", loginUrl>>>>
                 /\ calls'[Len(calls')] = <<"top.location.assign", loginUrl>>
                 /\ location'.top = loginUrl
                 /\ ~props.isGuestEnabled => state' = [state EXCEPT !.isCartEmpty = TRUE]
            ELSE /\ TopNavigationCalls(calls') = <<>>
                 /\ location' = location
                 /\ "customer" \in TypesOf(props.steps) =>
                        state'.activeStepType = "customer"]_vars

C16_Witness ==
    /\ lastOp.name = "handleSignOut"
    /\ lastOp.args[1]
    /\ ~props.isPriceHiddenFromGuests
    /\ ~props.isGuestEnabled
    /\ env = [isEmbedded |-> FALSE, top |-> "self"]
    /\ location.top = loginUrl
    /\ state.isCartEmpty
    /\ "customer" \in TypesOf(props.steps)
    /\ state.activeStepType = "billing"
    /\ renderContent(state, props) = <<>>

\* C17: POST /process-payment with a body that has payment_data and order_id, and a
\* payment the provider does not decline, answers once, with status 'success', the
\* transaction's id, and the amount and currency of payment_data.
C17_ProcessPaymentSucceeds ==
    (/\ srv.pc = "done"
     /\ srv.route = "POST /process-payment"
     /\ srv.req.parsed
     /\ srv.req.payment_data.kind = "object"
     /\ srv.req.order_id = "order1"
     /\ srv.processPayment /= "rejects")
    => /\ Len(srv.responses) = 1
       /\ srv.responses[1].status = 200
       /\ srv.responses[1].body.status = "success"
       /\ srv.responses[1].body.transaction_id /= Undefined
       /\ srv.responses[1].body.amount = srv.req.payment_data.amount
       /\ srv.responses[1].body.currency = srv.req.payment_data.currency

====
